---- MODULE Spec2Model ----
(***************************************************************************)
(* A model of the diagnostic scripts of ccusage-menubar:                   *)
(*   check_costUSD_field.py        the log scan (has_cost / no_cost / sum) *)
(*   swift-cli/compare_json.py     the two fetches, main, compare_results  *)
(*   tests/find_exact_cache_rate.py  the rate inversion                    *)
(*   tests/reverse_engineer_pricing.py  the forward cost calculation       *)
(*   tests/test_cost.py            the date lookup                         *)
(* Python floats are IEEE-754 binary64; they are modelled bit-exactly      *)
(* (round to nearest, ties to even) on arbitrary-precision naturals.       *)
(***************************************************************************)
EXTENDS Integers, Sequences, FiniteSets, TLC

(***************************************************************************)
(* Arbitrary-precision naturals: little-endian sequences of limbs, no      *)
(* leading zero limb, << >> is zero.                                       *)
(***************************************************************************)
Base == 2 ^ 14

RECURSIVE SmallBitLen(_)
SmallBitLen(n) == IF n = 0 THEN 0 ELSE 1 + SmallBitLen(n \div 2)

LimbBits == SmallBitLen(Base) - 1

Limb(a, i) == IF i <= Len(a) THEN a[i] ELSE 0

RECURSIVE BNorm(_)
BNorm(a) ==
  IF a = << >> THEN << >>
  ELSE IF a[Len(a)] = 0 THEN BNorm(SubSeq(a, 1, Len(a) - 1))
  ELSE a

RECURSIVE BFromNat(_)
BFromNat(n) == IF n = 0 THEN << >> ELSE <<n % Base>> \o BFromNat(n \div Base)

RECURSIVE BAddAt(_, _, _, _)
BAddAt(a, b, i, c) ==
  IF i > Len(a) /\ i > Len(b)
  THEN (IF c = 0 THEN << >> ELSE <<c>>)
  ELSE LET s == Limb(a, i) + Limb(b, i) + c
       IN  <<s % Base>> \o BAddAt(a, b, i + 1, s \div Base)

BAdd(a, b) == BAddAt(a, b, 1, 0)

RECURSIVE BSubAt(_, _, _, _)
BSubAt(a, b, i, c) ==
  IF i > Len(a) THEN << >>
  ELSE LET d == Limb(a, i) - Limb(b, i) - c
       IN  IF d < 0 THEN <<d + Base>> \o BSubAt(a, b, i + 1, 1)
           ELSE <<d>> \o BSubAt(a, b, i + 1, 0)

\* a - b for a >= b
BSub(a, b) == BNorm(BSubAt(a, b, 1, 0))

RECURSIVE BCmpAt(_, _, _)
BCmpAt(a, b, i) ==
  IF i = 0 THEN 0
  ELSE IF a[i] < b[i] THEN -1
  ELSE IF a[i] > b[i] THEN 1
  ELSE BCmpAt(a, b, i - 1)

\* -1, 0, 1 as a < b, a = b, a > b
BCmp(a, b) ==
  IF Len(a) < Len(b) THEN -1
  ELSE IF Len(a) > Len(b) THEN 1
  ELSE BCmpAt(a, b, Len(a))

RECURSIVE BColumn(_, _, _, _)
BColumn(a, b, k, i) ==
  IF i > Len(a) THEN 0
  ELSE (IF k + 1 - i >= 1 /\ k + 1 - i <= Len(b) THEN a[i] * b[k + 1 - i] ELSE 0)
       + BColumn(a, b, k, i + 1)

RECURSIVE BMulAt(_, _, _, _)
BMulAt(a, b, k, c) ==
  IF k > Len(a) + Len(b) THEN (IF c = 0 THEN << >> ELSE <<c>>)
  ELSE LET s == BColumn(a, b, k, 1) + c
       IN  <<s % Base>> \o BMulAt(a, b, k + 1, s \div Base)

BMul(a, b) == BNorm(BMulAt(a, b, 1, 0))

BitLen(a) ==
  IF a = << >> THEN 0 ELSE LimbBits * (Len(a) - 1) + SmallBitLen(a[Len(a)])

RECURSIVE BMulSmallAt(_, _, _, _)
BMulSmallAt(a, f, i, c) ==
  IF i > Len(a) THEN (IF c = 0 THEN << >> ELSE <<c>>)
  ELSE LET s == a[i] * f + c
       IN  <<s % Base>> \o BMulSmallAt(a, f, i + 1, s \div Base)

\* a * 2^k
BShl(a, k) ==
  IF a = << >> THEN << >>
  ELSE [i \in 1..(k \div LimbBits) |-> 0] \o BMulSmallAt(a, 2 ^ (k % LimbBits), 1, 0)

RECURSIVE BDivSmallAt(_, _, _, _)
BDivSmallAt(a, f, i, c) ==
  IF i = 0 THEN << >>
  ELSE LET s == c * Base + a[i]
       IN  BDivSmallAt(a, f, i - 1, s % f) \o <<s \div f>>

\* floor(a / 2^k)
BShr(a, k) ==
  IF k \div LimbBits >= Len(a) THEN << >>
  ELSE LET hi == SubSeq(a, (k \div LimbBits) + 1, Len(a))
       IN  BNorm(BDivSmallAt(hi, 2 ^ (k % LimbBits), Len(hi), 0))

BMulSmall(a, f) == BNorm(BMulSmallAt(a, f, 1, 0))

Min(x, y) == IF x < y THEN x ELSE y

\* one quotient limb of r by b, b's top limb >= Base / 2 and r < b * Base:
\* the estimate q1 from the top limbs is at most 2 too large (Knuth, 4.3.1 D)
BDigitFrom(r, b, q1) ==
  IF BCmp(BMulSmall(b, q1), r) <= 0 THEN q1
  ELSE IF BCmp(BMulSmall(b, q1 - 1), r) <= 0 THEN q1 - 1
  ELSE q1 - 2

BDigit(r, b) ==
  BDigitFrom(r, b, Min(Base - 1,
                       (Limb(r, Len(b) + 1) * Base + Limb(r, Len(b))) \div b[Len(b)]))

\* long division by limbs, from a's top limb i down: <<quotient, remainder>>
RECURSIVE BDivAt(_, _, _, _, _)
BDivTake(a, b, i, q, r1, d) ==
  BDivAt(a, b, i - 1, <<d>> \o q, BSub(r1, BMulSmall(b, d)))

BDivStep(a, b, i, q, r1) == BDivTake(a, b, i, q, r1, BDigit(r1, b))

BDivAt(a, b, i, q, r) ==
  IF i = 0 THEN <<BNorm(q), r>>
  ELSE BDivStep(a, b, i, q, BNorm(<<a[i]>> \o r))

BDivUnshift(qr, s) == <<qr[1], BShr(qr[2], s)>>

BDivShifted(an, bn, s) == BDivUnshift(BDivAt(an, bn, Len(an), << >>, << >>), s)

BDivBy(a, b, s) == BDivShifted(BShl(a, s), BShl(b, s), s)

\* <<floor(a / b), a mod b>> for b # 0
BDivMod(a, b) == BDivBy(a, b, LimbBits - SmallBitLen(b[Len(b)]))

Odd(a) == a # << >> /\ a[1] % 2 = 1

(***************************************************************************)
(* Python float: IEEE-754 binary64.  A float is [neg, m, e] standing for   *)
(* (-1)^neg * m * 2^e with m = 0 (and e = 0) or m of exactly Prec bits.    *)
(* Every operation computes the exact result and rounds it once, to        *)
(* nearest with ties to even.  The exponents met here stay far from the    *)
(* overflow and subnormal ranges, which are not modelled.                  *)
(***************************************************************************)
Prec == 53

Float(neg, m, e) == [neg |-> neg, m |-> m, e |-> e]

FZero == Float(FALSE, << >>, 0)

\* a rounded result: the float, and whether nothing was rounded away
Rounded(val, exact) == [val |-> val, exact |-> exact]

\* q has Prec bits, or Prec + 1 when rounding up carried
FPack(neg, e, q, exact) ==
  Rounded(IF BitLen(q) > Prec THEN Float(neg, BShr(q, 1), e + 1) ELSE Float(neg, q, e),
          exact)

\* c compares what was cut off with half a unit in the last place
FRoundHalf(neg, e, q, c, sticky, exact) ==
  FPack(neg, e,
        IF c > 0 \/ (c = 0 /\ (sticky \/ Odd(q))) THEN BAdd(q, <<1>>) ELSE q,
        exact)

FRoundRem(neg, e, sticky, d, q, rem) ==
  FRoundHalf(neg, e, q, BCmp(rem, BShl(<<1>>, d - 1)), sticky, rem = << >> /\ ~sticky)

FRoundQuot(neg, M, e, sticky, d, q) ==
  FRoundRem(neg, e, sticky, d, q, BSub(M, BShl(q, d)))

FRoundLen(neg, M, e, sticky, L) ==
  IF L <= Prec
  THEN Rounded(Float(neg, BShl(M, Prec - L), e - (Prec - L)), ~sticky)
  ELSE FRoundQuot(neg, M, e + (L - Prec), sticky, L - Prec, BShr(M, L - Prec))

\* the exact value (-1)^neg * (M + s) * 2^e, 0 <= s < 1 and s # 0 iff sticky,
\* rounded to nearest, ties to even
FRound(neg, M, e, sticky) ==
  IF M = << >> THEN Rounded(FZero, ~sticky)
  ELSE FRoundLen(neg, M, e, sticky, BitLen(M))

\* float(n) for an int n >= 0
FromInt(n) == FRound(FALSE, BFromNat(n), 0, FALSE).val

FNeg(a) == IF a.m = << >> THEN a ELSE [a EXCEPT !.neg = ~a.neg]

FSubMag(an, Ma, bn, Mb, e, c) ==
  IF c = 0 THEN Rounded(FZero, TRUE)
  ELSE FRound(IF c > 0 THEN an ELSE bn,
              IF c > 0 THEN BSub(Ma, Mb) ELSE BSub(Mb, Ma), e, FALSE)

FAddMag(an, Ma, bn, Mb, e) ==
  IF an = bn THEN FRound(an, BAdd(Ma, Mb), e, FALSE)
  ELSE FSubMag(an, Ma, bn, Mb, e, BCmp(Ma, Mb))

FAddAligned(a, b, e) ==
  FAddMag(a.neg, BShl(a.m, a.e - e), b.neg, BShl(b.m, b.e - e), e)

FAddR(a, b) ==
  IF a.m = << >> THEN Rounded(b, TRUE)
  ELSE IF b.m = << >> THEN Rounded(a, TRUE)
  ELSE FAddAligned(a, b, Min(a.e, b.e))

FSubR(a, b) == FAddR(a, FNeg(b))

FMulR(a, b) ==
  IF a.m = << >> \/ b.m = << >> THEN Rounded(FZero, TRUE)
  ELSE FRound(a.neg # b.neg, BMul(a.m, b.m), a.e + b.e, FALSE)

FDivQuot(neg, e, qr) == FRound(neg, qr[1], e, qr[2] # << >>)

\* a / b for b # 0: the quotient of the significands to Prec + 3 bits and more
FDivR(a, b) ==
  IF a.m = << >> THEN Rounded(FZero, TRUE)
  ELSE FDivQuot(a.neg # b.neg, a.e - b.e - (Prec + 3),
                BDivMod(BShl(a.m, Prec + 3), b.m))

FAdd(a, b) == FAddR(a, b).val

FSub(a, b) == FSubR(a, b).val

FMul(a, b) == FMulR(a, b).val

FDiv(a, b) == FDivR(a, b).val

FAbs(a) == [a EXCEPT !.neg = FALSE]

\* the decimal literal n / 10^k (3e-06 is Dec(3, 6)): Python reads a literal
\* as the float nearest to it, which is the correctly rounded quotient
Dec(n, k) == FDiv(FromInt(n), FromInt(10 ^ k))

(***************************************************************************)
(* Strings the scripts test are sequences of characters.                   *)
(***************************************************************************)
TargetDate == <<"2", "0", "2", "5", "-", "0", "6", "-", "0", "9">>

OtherDate == <<"2", "0", "2", "5", "-", "0", "6", "-", "0", "8">>

\* s.startswith(p)
StartsWith(s, p) == Len(s) >= Len(p) /\ SubSeq(s, 1, Len(p)) = p

\* an optional value: << >> is None, <<v>> is v
None == << >>

Some(v) == <<v>>

(***************************************************************************)
(* Bounds of the model.                                                    *)
(***************************************************************************)
\* the *.jsonl files under ~/.claude/projects
MaxFiles == 2

\* the lines of all the files together
MaxLines == 2

\* every token count of an entry of a tool's daily array
MaxTok == 2

\* the entries of a tool's daily array
MaxDaily == 2

VARIABLES
  script,                 \* the script that runs
  pc,                     \* where it is
  exit_status,            \* its exit status, once pc = "done"
  stderr,                 \* the messages written to sys.stderr, and tracebacks
  files,                  \* check_costUSD_field: the files rglob yields
  fileIdx,                \*   the file of the for loop, Len(files) + 1 at its end
  lineIdx,                \*   the line of the inner loop, 0 before open()
  has_cost,
  no_cost,
  total_cost_from_field,
  matched,                \*   records so far whose timestamp matched the date
  visited,                \*   files the for loop has reached
  runs,                   \* subprocess.run calls so far, per tool
  outcome,                \* how each tool's subprocess ended
  pos,                    \* entries of `daily` the for loop has passed
  absent,                 \* the loop ended with no entry of the target date
  ccusage_data,           \* compare_json: main's locals
  swift_data,
  report,                 \*   what compare_results computed and printed
  entry,                  \* the entry found for the target date
  calc                    \* find_exact_cache_rate: the values it computes

vars == <<script, pc, exit_status, stderr, files, fileIdx, lineIdx, has_cost,
          no_cost, total_cost_from_field, matched, visited, runs, outcome, pos,
          absent, ccusage_data, swift_data, report, entry, calc>>

scanVars == <<files, fileIdx, lineIdx, has_cost, no_cost, total_cost_from_field,
              matched, visited>>

toolVars == <<runs, outcome, pos, absent, entry>>

cmpVars == <<ccusage_data, swift_data, report>>

(***************************************************************************)
(* check_costUSD_field.py                                                  *)
(***************************************************************************)
\* A line of a .jsonl file.  text is "blank" (only whitespace), "malformed"
\* (json.loads raises), "array" (JSON, but no object) or "object"; an object
\* has a timestamp and costUSD: "absent", "number" (cost is its value) or
\* "string" (a value that is not a number).
Line(text, timestamp, costUSD, cost) ==
  [text |-> text, timestamp |-> timestamp, costUSD |-> costUSD, cost |-> cost]

Costs == {Dec(1, 1), Dec(2, 1)}

Lines ==
  {Line("blank", << >>, "absent", FZero),
   Line("malformed", << >>, "absent", FZero),
   Line("array", << >>, "absent", FZero),
   Line("object", OtherDate \o <<"T", "2", "3">>, "number", Dec(1, 1)),
   Line("object", TargetDate \o <<"T", "1", "0">>, "absent", FZero),
   Line("object", TargetDate \o <<"T", "1", "1">>, "string", FZero)}
  \cup {Line("object", TargetDate \o <<"T", "1", "2">>, "number", c) : c \in Costs}

\* a file: one open() raises on, or its lines
Unopenable == [openable |-> FALSE, lines |-> << >>]

RECURSIVE LineSeqs(_)
LineSeqs(n) ==
  IF n = 0 THEN {<< >>}
  ELSE {<< >>} \cup {<<l>> \o ls : l \in Lines, ls \in LineSeqs(n - 1)}

FilesUpTo(n) == {Unopenable} \cup {[openable |-> TRUE, lines |-> ls] : ls \in LineSeqs(n)}

\* the sequences of at most k files that hold at most n lines together
RECURSIVE FileLists(_, _)
FileLists(k, n) ==
  IF k = 0 THEN {<< >>}
  ELSE {<< >>} \cup
       UNION {{<<f>> \o fs : fs \in FileLists(k - 1, n - Len(f.lines))} : f \in FilesUpTo(n)}

\* the body of the inner loop on one line: the three counters after it, whether
\* it raised, and whether it got as far as counting a record of the date
ProcessLine(agg, line) ==
  IF line.text = "blank" THEN [agg EXCEPT !.raised = FALSE, !.counted = FALSE]
  ELSE IF line.text # "object" THEN [agg EXCEPT !.raised = TRUE, !.counted = FALSE]
  ELSE IF ~StartsWith(line.timestamp, TargetDate)
  THEN [agg EXCEPT !.raised = FALSE, !.counted = FALSE]
  ELSE IF line.costUSD = "absent"
  THEN [agg EXCEPT !.no_cost = @ + 1, !.raised = FALSE, !.counted = TRUE]
  ELSE IF line.costUSD = "string"
  THEN [agg EXCEPT !.has_cost = @ + 1, !.raised = TRUE, !.counted = TRUE]
  ELSE [agg EXCEPT !.has_cost = @ + 1, !.total = FAdd(@, line.cost),
                   !.raised = FALSE, !.counted = TRUE]

Agg(h, n, t) == [has_cost |-> h, no_cost |-> n, total |-> t, raised |-> FALSE,
                 counted |-> FALSE]

\* `except: break` in the place of `except: continue`
OnExceptionBreak(i) == Len(files) + 1

\* where `except: continue` resumes: the next file of the for loop
OnException(i) == i + 1

InitScan ==
  /\ files \in FileLists(MaxFiles, MaxLines)
  /\ fileIdx = 1
  /\ lineIdx = 0
  /\ has_cost = 0
  /\ no_cost = 0
  /\ total_cost_from_field = FZero
  /\ matched = 0
  /\ visited = {}

\* open(jsonl_file, 'r'): the file opens, or raises and the loop continues
OpenFile ==
  /\ script = "check_costUSD_field" /\ pc = "scan"
  /\ fileIdx <= Len(files) /\ lineIdx = 0
  /\ visited' = visited \cup {fileIdx}
  /\ IF files[fileIdx].openable
     THEN lineIdx' = 1 /\ fileIdx' = fileIdx
     ELSE lineIdx' = 0 /\ fileIdx' = OnException(fileIdx)
  /\ UNCHANGED <<script, pc, exit_status, stderr, files, has_cost, no_cost,
                 total_cost_from_field, matched, toolVars, cmpVars, calc>>

\* one turn of `for line in f`, or its end
ReadLine ==
  /\ script = "check_costUSD_field" /\ pc = "scan"
  /\ fileIdx <= Len(files) /\ lineIdx >= 1
  /\ IF lineIdx > Len(files[fileIdx].lines)
     THEN /\ fileIdx' = fileIdx + 1
          /\ lineIdx' = 0
          /\ UNCHANGED <<has_cost, no_cost, total_cost_from_field, matched>>
     ELSE LET r == ProcessLine(Agg(has_cost, no_cost, total_cost_from_field),
                               files[fileIdx].lines[lineIdx])
          IN  /\ has_cost' = r.has_cost
              /\ no_cost' = r.no_cost
              /\ total_cost_from_field' = r.total
              /\ matched' = IF r.counted THEN matched + 1 ELSE matched
              /\ IF r.raised
                 THEN fileIdx' = OnException(fileIdx) /\ lineIdx' = 0
                 ELSE fileIdx' = fileIdx /\ lineIdx' = lineIdx + 1
  /\ UNCHANGED <<script, pc, exit_status, stderr, files, visited, toolVars,
                 cmpVars, calc>>

\* the summary after the loop; the script ends
Summary ==
  /\ script = "check_costUSD_field" /\ pc = "scan"
  /\ fileIdx > Len(files)
  /\ pc' = "done"
  /\ exit_status' = 0
  /\ UNCHANGED <<script, stderr, scanVars, toolVars, cmpVars, calc>>

\* the whole scan of one file and of a list of files, as functions of the input
RECURSIVE ScanLines(_, _, _)
ScanLines(agg, ls, i) ==
  IF i > Len(ls) THEN agg
  ELSE LET r == ProcessLine(agg, ls[i])
       IN  IF r.raised THEN r ELSE ScanLines(r, ls, i + 1)

RECURSIVE ScanFiles(_, _, _)
ScanFiles(agg, fs, i) ==
  IF i > Len(fs) THEN agg
  ELSE IF ~fs[i].openable THEN ScanFiles(agg, fs, i + 1)
  ELSE ScanFiles(ScanLines(agg, fs[i].lines, 1), fs, i + 1)

\* <<has_cost, no_cost, total_cost_from_field>> at the summary
Aggregate(fs) ==
  LET r == ScanFiles(Agg(0, 0, FZero), fs, 1)
  IN  <<r.has_cost, r.no_cost, r.total>>

(***************************************************************************)
(* The external tools.  subprocess.run ends in one of Outcomes; on "ok"    *)
(* stdout is a JSON object whose `daily` array the scripts walk.  An entry *)
(* of the array has a date, the token counts and totalTokens when it is    *)
(* complete (a missing key raises KeyError where it is read), and          *)
(* totalCost when hasCost.                                                 *)
(***************************************************************************)
Entry(date, complete, i, o, cc, cr, tt, hasCost, cost) ==
  [date |-> date, complete |-> complete, inputTokens |-> i, outputTokens |-> o,
   cacheCreationTokens |-> cc, cacheReadTokens |-> cr, totalTokens |-> tt,
   hasCost |-> hasCost, totalCost |-> cost]

Dates == {TargetDate, OtherDate}

Incomplete(d) == Entry(d, FALSE, 0, 0, 0, 0, 0, FALSE, FZero)

\* the known rates (find_exact_cache_rate.py, reverse_engineer_pricing.py)
input_rate == Dec(3, 6)

output_rate == Dec(15, 6)

cache_rate == Dec(249, 8)

cache_rate2 == Dec(375, 8)

\* the forward calculation: cost1 and cost2 of reverse_engineer_pricing.py,
\* input_tokens * sonnet_input + output_tokens * sonnet_output
\*   + cache_create * cache_rate + cache_read * cache_rate, summed left to right
ForwardSum3(a, b, c, d, s1, s2, s3) ==
  Rounded(s3.val, a.exact /\ b.exact /\ c.exact /\ d.exact
                  /\ s1.exact /\ s2.exact /\ s3.exact)

ForwardSum2(a, b, c, d, s1, s2) ==
  ForwardSum3(a, b, c, d, s1, s2, FAddR(s2.val, d.val))

ForwardSum1(a, b, c, d, s1) == ForwardSum2(a, b, c, d, s1, FAddR(s1.val, c.val))

ForwardSum(a, b, c, d) == ForwardSum1(a, b, c, d, FAddR(a.val, b.val))

ForwardCostR(e, rate) ==
  ForwardSum(FMulR(FromInt(e.inputTokens), input_rate),
             FMulR(FromInt(e.outputTokens), output_rate),
             FMulR(FromInt(e.cacheCreationTokens), rate),
             FMulR(FromInt(e.cacheReadTokens), rate))

ForwardCost(e, rate) == ForwardCostR(e, rate).val

\* compare_json.py: the entries either tool may report; totalTokens is the
\* tool's own figure, the sum of the four counts or not
\* (the counts of one entry are kept to MaxTok tokens together)
TokenCounts ==
  {t \in [{"i", "o", "cc", "cr"} -> 0..MaxTok] :
     t["i"] + t["o"] + t["cc"] + t["cr"] <= MaxTok}

CmpEntries ==
  {Incomplete(d) : d \in Dates} \cup
  {Entry(d, TRUE, t["i"], t["o"], t["cc"], t["cr"],
         t["i"] + t["o"] + t["cc"] + t["cr"] + x, h,
         IF h THEN Dec(1050, 2) ELSE FZero) :
     d \in Dates, t \in TokenCounts, x \in 0..1, h \in BOOLEAN}

\* the lookup scripts: the cache rates a tool may have charged
CacheRates == {FZero, cache_rate, cache_rate2}

LookupEntries ==
  {Incomplete(d) : d \in Dates} \cup
  {Entry(OtherDate, TRUE, 1, 1, 1, 1, 4, TRUE, Dec(1050, 2))} \cup
  UNION {{Entry(TargetDate, TRUE, i, o, cc, cr, i + o + cc + cr, TRUE, t) :
            t \in {FZero} \cup
                  {ForwardCost(Entry(TargetDate, TRUE, i, o, cc, cr, 0, TRUE, FZero), r) :
                     r \in CacheRates}} :
         i \in 0..MaxTok, o \in 0..MaxTok, cc \in 0..MaxTok, cr \in 0..MaxTok}

(***************************************************************************)
(* swift-cli/compare_json.py                                               *)
(***************************************************************************)
\* how subprocess.run(..., timeout=30) and json.loads(result.stdout) may end:
\* the run raises OSError or TimeoutExpired, the tool exits non-zero, stdout
\* is no JSON, stdout is JSON but no object, stdout is a JSON object
Outcomes == {"oserror", "timeout", "nonzero", "badjson", "nonobject", "ok"}

\* the dict either fetch returns for an entry
Data(tool, e) ==
  [tool |-> tool, date |-> e.date, inputTokens |-> e.inputTokens,
   outputTokens |-> e.outputTokens, cacheCreationTokens |-> e.cacheCreationTokens,
   cacheReadTokens |-> e.cacheReadTokens, totalTokens |-> e.totalTokens,
   totalCost |-> IF e.hasCost THEN e.totalCost ELSE FZero]

\* what run_ccusage_json prints to sys.stderr when the run did not give JSON
CcusageError(o) ==
  CASE o = "nonzero" -> "ccusage failed"
    [] o = "timeout" -> "ccusage timed out"
    [] o = "badjson" -> "Failed to parse ccusage JSON"
    [] OTHER         -> "Error running ccusage"

\* run_swift_cli_json has no handler of its own for TimeoutExpired
SwiftError(o) ==
  CASE o = "nonzero" -> "Swift CLI failed"
    [] o = "badjson" -> "Failed to parse Swift CLI JSON"
    [] OTHER         -> "Error running Swift CLI"

\* a main that gives up after a first fetch without a result
AfterCcusageStop(data) == IF data = None THEN "check" ELSE "fetch_swift"

\* main goes on to the second fetch whatever the first returned
AfterCcusage(data) == "fetch_swift"

\* run_ccusage_json up to json.loads
RunCcusage ==
  /\ script = "compare_json" /\ pc = "fetch_ccusage"
  /\ \E o \in Outcomes :
       /\ runs' = [runs EXCEPT !.ccusage = @ + 1]
       /\ outcome' = [outcome EXCEPT !.ccusage = o]
       /\ IF o = "ok"
          THEN /\ pc' = "ccusage_loop"
               /\ UNCHANGED <<stderr, ccusage_data>>
          ELSE /\ stderr' = Append(stderr, CcusageError(o))
               /\ ccusage_data' = None
               /\ pc' = AfterCcusage(None)
  /\ pos' = 0
  /\ UNCHANGED <<script, exit_status, scanVars, absent, entry, swift_data, report, calc>>

\* one turn of run_ccusage_json's `for entry in data.get('daily', [])`, or its end
CcusageLoop ==
  /\ script = "compare_json" /\ pc = "ccusage_loop"
  /\ \/ /\ stderr' = Append(stderr, "No data found for 2025-06-09 in ccusage output")
        /\ ccusage_data' = None
        /\ absent' = TRUE
        /\ pc' = AfterCcusage(None)
        /\ pos' = 0
     \/ /\ pos < MaxDaily
        /\ \E e \in CmpEntries :
             IF e.date = TargetDate
             THEN /\ IF e.complete
                     THEN /\ ccusage_data' = Some(Data("ccusage", e))
                          /\ UNCHANGED stderr
                     ELSE /\ ccusage_data' = None
                          /\ stderr' = Append(stderr, CcusageError("KeyError"))
                  /\ pc' = AfterCcusage(ccusage_data')
                  /\ pos' = 0
                  /\ UNCHANGED absent
             ELSE /\ pos' = pos + 1
                  /\ UNCHANGED <<pc, stderr, ccusage_data, absent>>
  /\ UNCHANGED <<script, exit_status, scanVars, runs, outcome, entry, swift_data,
                 report, calc>>

\* run_swift_cli_json up to json.loads
RunSwift ==
  /\ script = "compare_json" /\ pc = "fetch_swift"
  /\ \E o \in Outcomes :
       /\ runs' = [runs EXCEPT !.swift = @ + 1]
       /\ outcome' = [outcome EXCEPT !.swift = o]
       /\ IF o = "ok"
          THEN /\ pc' = "swift_first"
               /\ UNCHANGED <<stderr, swift_data>>
          ELSE /\ stderr' = Append(stderr, SwiftError(o))
               /\ swift_data' = None
               /\ pc' = "check"
  /\ UNCHANGED <<script, exit_status, scanVars, pos, absent, entry, ccusage_data,
                 report, calc>>

\* run_swift_cli_json: daily_data[0], whatever its date, or no daily data
SwiftFirst ==
  /\ script = "compare_json" /\ pc = "swift_first"
  /\ \/ /\ stderr' = Append(stderr, "No daily data found in Swift CLI output")
        /\ swift_data' = None
     \/ \E e \in CmpEntries :
          IF e.complete
          THEN /\ swift_data' = Some(Data("swift_cli", e))
               /\ UNCHANGED stderr
          ELSE /\ swift_data' = None
               /\ stderr' = Append(stderr, SwiftError("KeyError"))
  /\ pc' = "check"
  /\ UNCHANGED <<script, exit_status, scanVars, toolVars, ccusage_data, report, calc>>

\* a main that looks at the first result only
BothFetchedFirst(cd, sd) == cd # None

\* `if not ccusage_data` / `if not swift_data`: whether main goes on to compare
BothFetched(cd, sd) == cd # None /\ sd # None

\* main after the two fetches: sys.exit(1), or on to compare_results
MainCheck ==
  /\ script = "compare_json" /\ pc = "check"
  /\ IF BothFetched(ccusage_data, swift_data)
     THEN pc' = "compare" /\ UNCHANGED exit_status
     ELSE pc' = "done" /\ exit_status' = 1
  /\ UNCHANGED <<script, stderr, scanVars, toolVars, cmpVars, calc>>

Abs(n) == IF n < 0 THEN -n ELSE n

metrics == <<"inputTokens", "outputTokens", "cacheCreationTokens",
             "cacheReadTokens", "totalTokens">>

\* a comparison that never finds a metric equal
DiffersAlways(diff) == diff >= 0

\* `if diff != 0`
Differs(diff) == diff # 0

\* the loop of compare_results over metrics: <<all_match, total_diff>>
RECURSIVE CompareAt(_, _, _, _, _)
CompareAt(cd, sd, k, all_match, total_diff) ==
  IF k > Len(metrics) THEN <<all_match, total_diff>>
  ELSE LET diff == Abs(cd[metrics[k]] - sd[metrics[k]])
       IN  IF Differs(diff)
           THEN CompareAt(cd, sd, k + 1, FALSE, total_diff + diff)
           ELSE CompareAt(cd, sd, k + 1, all_match, total_diff)

\* `if ccusage_total > 0`, the guard of the accuracy division
AccuracyGuard(ccusage_total) == ccusage_total > 0

Report(all_match, total_diff, accuracy, printed, error) ==
  [all_match |-> all_match, total_diff |-> total_diff, accuracy |-> accuracy,
   printed |-> printed, error |-> error]

\* accuracy = (1.0 - total_diff / ccusage_total) * 100
Accuracy(total_diff, ccusage_total) ==
  FMul(FSub(FromInt(1), FDiv(FromInt(total_diff), FromInt(ccusage_total))),
       FromInt(100))

\* compare_results after its loop: accuracy is None when it is not computed;
\* error is "ZeroDivisionError" when the division is reached with a zero divisor
CompareReport(all_match, total_diff, ccusage_total) ==
  IF all_match THEN Report(TRUE, total_diff, None, "PERFECT MATCH", "none")
  ELSE IF AccuracyGuard(ccusage_total)
  THEN IF ccusage_total = 0
       THEN Report(FALSE, total_diff, None, "none", "ZeroDivisionError")
       ELSE Report(FALSE, total_diff, Some(Accuracy(total_diff, ccusage_total)),
                   "Accuracy", "none")
  ELSE Report(FALSE, total_diff, None, "Significant differences found", "none")

CompareTotals(r, ccusage_total) == CompareReport(r[1], r[2], ccusage_total)

\* compare_results: what it computes and which line it prints last
compare_results(cd, sd) == CompareTotals(CompareAt(cd, sd, 1, TRUE, 0), cd.totalTokens)

CompareDone(r) ==
  /\ report' = Some(r)
  /\ pc' = "done"
  /\ IF r.error = "none"
     THEN exit_status' = 0 /\ UNCHANGED stderr
     ELSE exit_status' = 1 /\ stderr' = Append(stderr, "Traceback: " \o r.error)

\* main from compare_results to its end
Compare ==
  /\ script = "compare_json" /\ pc = "compare"
  /\ CompareDone(compare_results(ccusage_data[1], swift_data[1]))
  /\ UNCHANGED <<script, scanVars, toolVars, ccusage_data, swift_data, calc>>

(***************************************************************************)
(* The scripts that look the target date up in ccusage's daily array:      *)
(* tests/test_cost.py, compare_cost_not_tokens.py,                         *)
(* tests/find_exact_cache_rate.py, tests/reverse_engineer_pricing.py.      *)
(* None of them catches an exception: one that is raised ends the script   *)
(* with a traceback and exit status 1.                                     *)
(***************************************************************************)
LookupScripts == {"test_cost", "compare_cost_not_tokens", "find_exact_cache_rate",
                  "reverse_engineer_pricing"}

\* subprocess.run without a timeout, then json.loads(result.stdout) and
\* data.get('daily', []); the exit code of the tool is not looked at
LookupOutcomes == {"oserror", "badjson", "nonobject", "ok"}

Traceback(o) ==
  CASE o = "oserror"   -> "Traceback: FileNotFoundError"
    [] o = "badjson"   -> "Traceback: JSONDecodeError"
    [] o = "nonobject" -> "Traceback: AttributeError"
    [] OTHER           -> "Traceback: KeyError"

RunLookup ==
  /\ script \in LookupScripts /\ pc = "run"
  /\ \E o \in LookupOutcomes :
       /\ runs' = [runs EXCEPT !.ccusage = @ + 1]
       /\ outcome' = [outcome EXCEPT !.ccusage = o]
       /\ IF o = "ok"
          THEN pc' = "loop" /\ UNCHANGED <<stderr, exit_status>>
          ELSE /\ pc' = "done"
               /\ exit_status' = 1
               /\ stderr' = Append(stderr, Traceback(o))
  /\ UNCHANGED <<script, scanVars, pos, absent, entry, cmpVars, calc>>

\* one turn of `for entry in data.get('daily', [])`, or its end
LookupLoop ==
  /\ script \in LookupScripts /\ pc = "loop"
  /\ \/ /\ absent' = TRUE
        /\ pc' = "after_loop"
        /\ UNCHANGED <<pos, entry>>
     \/ /\ pos < MaxDaily
        /\ \E e \in LookupEntries :
             IF e.date = TargetDate
             THEN entry' = Some(e) /\ pc' = "body" /\ UNCHANGED <<pos, absent>>
             ELSE pos' = pos + 1 /\ UNCHANGED <<pc, entry, absent>>
  /\ UNCHANGED <<script, exit_status, stderr, scanVars, runs, outcome, cmpVars, calc>>

\* a guard that lets a zero divisor through
CacheGuardAny(total_cache_tokens) == total_cache_tokens >= 0

\* `if total_cache_tokens > 0`, the guard of the rate inversion
CacheGuard(total_cache_tokens) == total_cache_tokens > 0

\* the subtraction the other way round
CacheCostSwapped(total_cost, non_cache_cost) == FSub(non_cache_cost, total_cost)

\* cache_cost = total_cost - non_cache_cost
CacheCost(total_cost, non_cache_cost) == FSub(total_cost, non_cache_cost)

\* non_cache_cost = input_tokens * input_rate + output_tokens * output_rate
NonCacheCost(e) ==
  FAdd(FMul(FromInt(e.inputTokens), input_rate),
       FMul(FromInt(e.outputTokens), output_rate))

\* effective_cache_rate = cache_cost / total_cache_tokens
EffectiveCacheRate(cache_cost, total_cache_tokens) ==
  FDiv(cache_cost, FromInt(total_cache_tokens))

\* test_cost, the verification: the cost with the rate just computed
TestCost(e, total_cache_tokens, effective_cache_rate) ==
  FAdd(FAdd(FMul(FromInt(e.inputTokens), input_rate),
            FMul(FromInt(e.outputTokens), output_rate)),
       FMul(FromInt(total_cache_tokens), effective_cache_rate))

RateResult(total_cost, non_cache_cost, cache_cost, tct, rate, test_cost, error) ==
  [total_cost |-> total_cost, non_cache_cost |-> non_cache_cost,
   cache_cost |-> cache_cost, total_cache_tokens |-> tct,
   effective_cache_rate |-> rate, test_cost |-> test_cost, error |-> error]

RateVerified(e, ncc, cache_cost, tct, rate) ==
  RateResult(e.totalCost, ncc, cache_cost, tct, Some(rate),
             Some(TestCost(e, tct, rate)), "none")

\* from `if total_cache_tokens > 0` on; the rate and the verification are None
\* when they are not computed, error is "ZeroDivisionError" when the division
\* is reached with a zero divisor
RateGuarded(e, ncc, cache_cost, tct) ==
  IF CacheGuard(tct)
  THEN IF tct = 0
       THEN RateResult(e.totalCost, ncc, cache_cost, tct, None, None,
                       "ZeroDivisionError")
       ELSE RateVerified(e, ncc, cache_cost, tct, EffectiveCacheRate(cache_cost, tct))
  ELSE RateResult(e.totalCost, ncc, cache_cost, tct, None, None, "none")

RateFrom(e, ncc) ==
  RateGuarded(e, ncc, CacheCost(e.totalCost, ncc),
              e.cacheCreationTokens + e.cacheReadTokens)

\* find_exact_cache_rate.py, the body of the loop on the entry found
RateInversion(e) == RateFrom(e, NonCacheCost(e))

\* reverse_engineer_pricing.py, the body of the loop on the entry found
Scenarios(total_cost, cost1, cost2) ==
  [total_cost |-> total_cost, cost1 |-> cost1, cost2 |-> cost2,
   difference1 |-> FAbs(FSub(cost1, total_cost)),
   difference2 |-> FAbs(FSub(cost2, total_cost)), error |-> "none"]

PricingScenarios(e) ==
  Scenarios(e.totalCost, ForwardCost(e, cache_rate), ForwardCost(e, cache_rate2))

\* the body of the loop, up to its break
BodyResult(r) ==
  /\ calc' = Some(r)
  /\ IF r.error = "none"
     THEN pc' = "after_loop" /\ UNCHANGED <<exit_status, stderr>>
     ELSE /\ pc' = "done"
          /\ exit_status' = 1
          /\ stderr' = Append(stderr, "Traceback: " \o r.error)

Body ==
  /\ script \in LookupScripts /\ pc = "body"
  /\ IF ~entry[1].complete \/ ~entry[1].hasCost
     THEN /\ pc' = "done"
          /\ exit_status' = 1
          /\ stderr' = Append(stderr, Traceback("KeyError"))
          /\ UNCHANGED calc
     ELSE IF script \in {"test_cost", "compare_cost_not_tokens"}
     THEN /\ pc' = "after_loop"
          /\ UNCHANGED <<exit_status, stderr, calc>>
     ELSE IF script = "find_exact_cache_rate"
     THEN BodyResult(RateInversion(entry[1]))
     ELSE BodyResult(PricingScenarios(entry[1]))
  /\ UNCHANGED <<script, scanVars, toolVars, cmpVars>>

\* the exit status a lookup script ends with after its loop: the scripts
\* fall off their end, whether or not the date was found
StatusAfterLoop(notFound) == 0

\* after the loop (test_cost.py prints its two closing lines); the script ends
AfterLoop ==
  /\ script \in LookupScripts /\ pc = "after_loop"
  /\ pc' = "done"
  /\ exit_status' = StatusAfterLoop(absent)
  /\ UNCHANGED <<script, stderr, scanVars, toolVars, cmpVars, calc>>

(***************************************************************************)
(* The specifications: one run of one script.  SpecScan is the log scan,   *)
(* SpecTools the scripts that call the external tools, Spec all of them.   *)
(***************************************************************************)
ToolScripts == {"compare_json"} \cup LookupScripts

InitRun ==
  /\ pc = CASE script = "check_costUSD_field" -> "scan"
            [] script = "compare_json" -> "fetch_ccusage"
            [] OTHER -> "run"
  /\ exit_status = 0
  /\ stderr = << >>
  /\ runs = [ccusage |-> 0, swift |-> 0]
  /\ outcome = [ccusage |-> "none", swift |-> "none"]
  /\ pos = 0
  /\ absent = FALSE
  /\ ccusage_data = None
  /\ swift_data = None
  /\ report = None
  /\ entry = None
  /\ calc = None

InitScanRun ==
  /\ script = "check_costUSD_field"
  /\ InitRun
  /\ InitScan

InitTools ==
  /\ script \in ToolScripts
  /\ InitRun
  /\ files = << >>
  /\ fileIdx = 1
  /\ lineIdx = 0
  /\ has_cost = 0
  /\ no_cost = 0
  /\ total_cost_from_field = FZero
  /\ matched = 0
  /\ visited = {}

NextScan ==
  \/ OpenFile
  \/ ReadLine
  \/ Summary

NextTools ==
  \/ RunCcusage
  \/ CcusageLoop
  \/ RunSwift
  \/ SwiftFirst
  \/ MainCheck
  \/ Compare
  \/ RunLookup
  \/ LookupLoop
  \/ Body
  \/ AfterLoop

SpecScan == InitScanRun /\ [][NextScan]_vars

SpecTools == InitTools /\ [][NextTools]_vars

Init == InitScanRun \/ InitTools

Next == NextScan \/ NextTools

Spec == Init /\ [][Next]_vars

(***************************************************************************)
(* The properties.                                                         *)
(***************************************************************************)
Scanning == script = "check_costUSD_field"

Comparing == script = "compare_json"

Inverting == script = "find_exact_cache_rate"

\* json.loads gives an object for the line
IsRecord(l) == l.text = "object"

Unparsable(l) == l.text \in {"malformed", "array"}

\* a record whose costUSD, when it has one, is a number
ValidRecord(l) == IsRecord(l) /\ l.costUSD # "string"

\* the files without their unparsable lines
RecordsOf(fs) ==
  [i \in 1..Len(fs) |-> [fs[i] EXCEPT !.lines = SelectSeq(@, IsRecord)]]

\* every file opens and holds valid records and at most one unparsable line
OneMalformedLine ==
  \A i \in 1..Len(files) :
    /\ files[i].openable
    /\ \A j \in 1..Len(files[i].lines) :
         Unparsable(files[i].lines[j]) \/ ValidRecord(files[i].lines[j])
    /\ Cardinality({j \in 1..Len(files[i].lines) : Unparsable(files[i].lines[j])}) <= 1

\* C1: a line that does not parse as a JSON object is left out without ending
\* the scan of its file: when every file holds valid records and at most one
\* such line, in any position, the summary counts every valid record of the
\* date, that is, it is the aggregate of the files without those lines.
C1_ValidRecordsCounted ==
  (Scanning /\ pc = "done" /\ OneMalformedLine)
    => <<has_cost, no_cost, total_cost_from_field>> = Aggregate(RecordsOf(files))

\* the orders of the elements of a sequence
Orders(q) ==
  {[i \in 1..Len(q) |-> q[p[i]]] : p \in Permutations(1..Len(q))}

LineOrders(f) == {[f EXCEPT !.lines = ls] : ls \in Orders(f.lines)}

\* the same lines in the same files, the files and the lines of each in any order
Reorderings(fs) ==
  UNION {{h \in [1..Len(g) -> UNION {LineOrders(g[i]) : i \in 1..Len(g)}] :
            \A i \in 1..Len(g) : h[i] \in LineOrders(g[i])} :
         g \in Orders(fs)}

\* C8: the aggregate does not depend on the order of the records: the scan of
\* the same lines in any order, within the files and across them, ends with
\* the same has_cost, no_cost and total_cost_from_field.
C8_OrderInvariant ==
  (Scanning /\ pc = "done")
    => \A fs \in Reorderings(files) :
         Aggregate(fs) = <<has_cost, no_cost, total_cost_from_field>>

\* a < b on floats
FNegative(d) == d.m # << >> /\ d.neg

FLess(a, b) == FNegative(FSub(a, b))

\* the line the inner loop is at raises
Raises(l) ==
  \/ Unparsable(l)
  \/ IsRecord(l) /\ StartsWith(l.timestamp, TargetDate) /\ l.costUSD = "string"

\* this turn of the loops fails: open() raises, or the line read does
FailsNow ==
  /\ pc = "scan" /\ fileIdx <= Len(files)
  /\ IF lineIdx = 0 THEN ~files[fileIdx].openable
     ELSE lineIdx <= Len(files[fileIdx].lines)
          /\ Raises(files[fileIdx].lines[lineIdx])

\* a line of the open file, or its end, is there to be read
CanReadLine == pc = "scan" /\ fileIdx <= Len(files) /\ lineIdx >= 1

C10_State ==
  /\ matched = has_cost + no_cost
  /\ pc = "done" => visited = 1..Len(files)
  /\ pc # "done" => (ENABLED OpenFile) \/ CanReadLine \/ (ENABLED Summary)

C10_Step ==
  /\ has_cost' >= has_cost
  /\ no_cost' >= no_cost
  /\ ~FLess(total_cost_from_field', total_cost_from_field)
  /\ FailsNow => /\ pc' = "scan" /\ fileIdx' = fileIdx + 1 /\ lineIdx' = 0
                 /\ no_cost' = no_cost
                 /\ total_cost_from_field' = total_cost_from_field
  /\ \/ pc' = "done"
     \/ fileIdx' > fileIdx
     \/ fileIdx' = fileIdx /\ lineIdx' > lineIdx

InStderr(m) == \E i \in 1..Len(stderr) : stderr[i] = m

\* the ends of a fetch the claim names: timeout, exit code, JSON parse failure
FetchFailures == {"timeout", "nonzero", "badjson"}

\* C2: when a fetch of compare_json.py ends in a timeout, a non-zero exit code
\* or a JSON parse failure, it writes an error message and returns None, and
\* main ends with exit status 1 and never calls compare_results;
\* compare_results is called only when both fetches returned a result.
C2_FetchFailureIsFatal ==
  Comparing =>
    /\ outcome.ccusage \in FetchFailures =>
         /\ ccusage_data = None
         /\ \/ InStderr("ccusage failed")
            \/ InStderr("ccusage timed out")
            \/ InStderr("Failed to parse ccusage JSON")
         /\ pc \notin {"ccusage_loop", "compare"} /\ report = None
         /\ IF pc = "done" THEN exit_status = 1 ELSE ENABLED NextTools
    /\ outcome.swift \in FetchFailures =>
         /\ swift_data = None
         /\ \/ InStderr("Swift CLI failed")
            \/ InStderr("Error running Swift CLI")
            \/ InStderr("Failed to parse Swift CLI JSON")
         /\ pc \notin {"swift_first", "compare"} /\ report = None
         /\ IF pc = "done" THEN exit_status = 1 ELSE ENABLED NextTools
    /\ (pc = "compare" \/ report # None) => ccusage_data # None /\ swift_data # None

\* ccusage reported the date and the Swift CLI timed out: exit status 1
C2_Witness ==
  /\ Comparing /\ pc = "done" /\ exit_status = 1
  /\ ccusage_data # None /\ outcome.swift = "timeout" /\ report = None

\* C3: a script that looks the target date up in ccusage's daily array and
\* finds no entry of that date logs it and exits with status 1; a script exits
\* with status 0 only when nothing went wrong.
C3_MissingDataFails ==
  (script \in ToolScripts /\ pc = "done")
    => /\ absent => exit_status = 1 /\ stderr # << >>
       /\ exit_status = 0 => ~absent /\ stderr = << >>

FourEqual(cd, sd) == \A k \in 1..4 : cd[metrics[k]] = sd[metrics[k]]

C5_SameDate ==
  (Comparing /\ (pc = "compare" \/ report # None))
    => ccusage_data[1].date = swift_data[1].date

\* C6: no division by zero is reached.  The rate is computed exactly when
\* cacheCreationTokens + cacheReadTokens > 0 and the accuracy only when the
\* reference totalTokens > 0; with a zero divisor the quotient is not computed
\* and the script ends normally.
C6_NoDivisionByZero ==
  /\ ~InStderr("Traceback: ZeroDivisionError")
  /\ (Inverting /\ calc # None) =>
       /\ calc[1].error = "none"
       /\ calc[1].effective_cache_rate # None <=> calc[1].total_cache_tokens > 0
       /\ calc[1].test_cost # None <=> calc[1].total_cache_tokens > 0
       /\ pc # "done" => ENABLED NextTools
       /\ (pc = "done" /\ calc[1].total_cache_tokens = 0) => exit_status = 0
  /\ (Comparing /\ report # None) =>
       /\ report[1].error = "none"
       /\ report[1].accuracy # None => ccusage_data[1].totalTokens > 0
       /\ ccusage_data[1].totalTokens = 0 => report[1].accuracy = None
       /\ pc = "done" /\ exit_status = 0

\* an entry of the date without cache tokens: no rate, exit status 0
C6_Witness ==
  /\ Inverting /\ pc = "done" /\ calc # None /\ exit_status = 0
  /\ calc[1].total_cache_tokens = 0
  /\ calc[1].effective_cache_rate = None
  /\ entry[1].inputTokens > 0

\* C7: one run of compare_json.py invokes each tool exactly once, however
\* either invocation ends.
C7_NoRetry ==
  Comparing =>
    /\ runs.ccusage <= 1 /\ runs.swift <= 1
    /\ pc = "done" => runs.ccusage = 1 /\ runs.swift = 1

\* both invocations failed, each was made once
C7_Witness ==
  /\ Comparing /\ pc = "done"
  /\ outcome.ccusage = "timeout" /\ outcome.swift = "nonzero"
  /\ runs.ccusage = 1 /\ runs.swift = 1

\* C9 as claimed: when the total cost is the forward calculation with one
\* cache rate r and there are cache tokens, the rate computed equals r and the
\* verification cost equals the total cost.
C9_InversionExact ==
  (Inverting /\ calc # None /\ calc[1].total_cache_tokens > 0)
    => \A r \in CacheRates :
         calc[1].total_cost = ForwardCost(entry[1], r)
           => /\ calc[1].effective_cache_rate = Some(r)
              /\ calc[1].test_cost = Some(calc[1].total_cost)

\* no float operation of the inversion of c, computed for entry e, rounds
NoRounding(e, c) ==
  /\ FMulR(FromInt(e.inputTokens), input_rate).exact
  /\ FMulR(FromInt(e.outputTokens), output_rate).exact
  /\ FAddR(FMul(FromInt(e.inputTokens), input_rate),
           FMul(FromInt(e.outputTokens), output_rate)).exact
  /\ FSubR(c.total_cost, c.non_cache_cost).exact
  /\ FDivR(c.cache_cost, FromInt(c.total_cache_tokens)).exact
  /\ FMulR(FromInt(c.total_cache_tokens), c.effective_cache_rate[1]).exact
  /\ FAddR(c.non_cache_cost,
           FMul(FromInt(c.total_cache_tokens), c.effective_cache_rate[1])).exact

\* C9, amended: the same, provided no float operation of the forward
\* calculation and of the inversion rounds its result.
C9_InversionExactUnrounded ==
  (Inverting /\ calc # None /\ calc[1].total_cache_tokens > 0)
    => \A r \in CacheRates :
         (/\ calc[1].total_cost = ForwardCost(entry[1], r)
          /\ ForwardCostR(entry[1], r).exact
          /\ NoRounding(entry[1], calc[1]))
           => /\ calc[1].effective_cache_rate = Some(r)
              /\ calc[1].test_cost = Some(calc[1].total_cost)

\* input, cache-creation and cache-read tokens, charged at a rate the
\* inversion recovers without rounding
C9_Witness ==
  /\ Inverting /\ calc # None /\ calc[1].total_cache_tokens > 0
  /\ entry[1].cacheCreationTokens > 0 /\ entry[1].cacheReadTokens > 0
  /\ \E r \in CacheRates \ {FZero} :
       /\ calc[1].total_cost = ForwardCost(entry[1], r)
       /\ ForwardCostR(entry[1], r).exact
       /\ NoRounding(entry[1], calc[1])
       /\ calc[1].effective_cache_rate = Some(r)
====
